---- MODULE Spec2Model ----
(***************************************************************************)
(* Model of msanii/demo/utils.py: the length/divisibility arithmetic, the  *)
(* padding and cropping of audio tensors, the gradio pre- and              *)
(* post-processing, the interval mask and the amplitude scaler.            *)
(*                                                                         *)
(* Every function of the file is pure, so the state is the call under way: *)
(* its arguments, the local variables of the function being executed, the  *)
(* position in it, and the values returned so far.                         *)
(*                                                                         *)
(* A sample is an exact rational <<num, den>> in lowest terms, den > 0.    *)
(* den = 0 holds the non-finite results of IEEE division: <<0, 0>> is NaN, *)
(* <<1, 0>> is +Inf and <<-1, 0>> is -Inf.                                 *)
(* A torch tensor of shape (B, C, L) is x[b][c][t], 1-indexed.             *)
(* A numpy array is [dtype, shape, data]; data[t] for shape <<L>> and      *)
(* data[t][c] for shape <<L, C>>.                                          *)
(***************************************************************************)
EXTENDS Integers, Sequences, FiniteSets, TLC

VARIABLES
    pc,             \* position: the function (or the step of it) to run next
    args,           \* the arguments of the call
    audio,          \* the local variable `audio` of the pre/post-processing
    target_length,  \* the local variable `target_length` of the pre-processing
    returned        \* the values returned so far, in call order

vars == <<pc, args, audio, target_length, returned>>

----------------------------------------------------------------------------
(* Bounds of the model.                                                    *)

MaxLength == 40       \* compute_divisible_length: curr_length in 0..MaxLength
MaxHop == 5           \* hop_length in 1..MaxHop
MaxDown == 3          \* num_downsamples in 0..MaxDown
MaxAlignLen == 9      \* pad_to_divisible_length: time length of the buffer
MaxChannels == 2      \* channels of a buffer
MaxAudioLen == 4      \* pre-processing: samples of the raw array
MaxRate == 3          \* sample rates in 1..MaxRate
MaxTarget == 5        \* target_length in 0..MaxTarget
MaxPipeHop == 3       \* pre-processing: hop_length in 1..MaxPipeHop
MaxPipeDown == 2      \* pre-processing: num_downsamples in 0..MaxPipeDown
MaxBatch == 3         \* post-processing: batch size of the model output
MaxPostLen == 3       \* post-processing: time length of the model output
MaxPostTarget == 4    \* post-processing: target_length in 0..MaxPostTarget
MaxMaskLen == 6       \* mask: samples of the buffer
MaxSec == 3           \* mask: interval bounds in seconds
MaxIntervals == 2     \* mask: intervals in a spec string
MaxMaskRate == 2      \* mask: sample_rate in 1..MaxMaskRate
MaxScaleLen == 3      \* max_abs_scaling: samples of the buffer

----------------------------------------------------------------------------
(* Arithmetic helpers.                                                     *)

Max(a, b) == IF a >= b THEN a ELSE b
Min(a, b) == IF a <= b THEN a ELSE b
Abs(a) == IF a < 0 THEN -a ELSE a

RECURSIVE Pow2(_)
\* 2**n
Pow2(n) == IF n = 0 THEN 1 ELSE 2 * Pow2(n - 1)

\* math.ceil(a / b) for a >= 0, b > 0
CeilDiv(a, b) == (a + b - 1) \div b

RECURSIVE Gcd(_, _)
Gcd(a, b) == IF b = 0 THEN a ELSE Gcd(b, a % b)

\* The float n / d: a rational in lowest terms; x/0 is NaN or +-Inf.
Rat(n, d) ==
    IF d = 0 THEN <<(IF n > 0 THEN 1 ELSE IF n < 0 THEN -1 ELSE 0), 0>>
    ELSE LET g == Gcd(Abs(n), Abs(d))
             s == IF d < 0 THEN -1 ELSE 1
         IN  <<(s * n) \div g, (s * d) \div g>>

Zero == <<0, 1>>
One == <<1, 1>>
IsFinite(q) == q[2] # 0

\* Float division and multiplication of finite samples.
RDiv(p, q) == Rat(p[1] * q[2], p[2] * q[1])
RMul(p, q) == Rat(p[1] * q[1], p[2] * q[2])
RAbs(q) == <<Abs(q[1]), q[2]>>
RLeq(p, q) == p[1] * q[2] <= q[1] * p[2]
\* -1 <= q <= 1
InUnit(q) == IsFinite(q) /\ Abs(q[1]) <= q[2]

----------------------------------------------------------------------------
(* Values returned by a call: a value, or the exception raised.            *)

Ok(v) == [raised |-> "", value |-> v]
Raise(e) == [raised |-> e, value |-> <<>>]

----------------------------------------------------------------------------
(* Tensors.                                                                *)

\* x.shape[0], x.shape[1], x.shape[-1] of a (B, C, L) tensor, B, C >= 1
BatchSize(x) == Len(x)
Channels(x) == Len(x[1])
TimeLen(x) == Len(x[1][1])

Zeros(n) == [i \in 1..n |-> Zero]

\* Buffers with pairwise distinct, non-zero samples, and silent buffers.
RampTensor(B, C, L) ==
    [b \in 1..B |-> [c \in 1..C |-> [t \in 1..L |-> <<100 * b + 10 * c + t, 1>>]]]
ZeroTensor(B, C, L) == [b \in 1..B |-> [c \in 1..C |-> Zeros(L)]]

----------------------------------------------------------------------------
(* compute_divisible_length (utils.py 16-27).  curr_length / hop_length    *)
(* and num_time_frames / 2**num_downsamples are float divisions; both are  *)
(* exact enough below 2^53 for int() and math.ceil to give the floor and   *)
(* the ceiling of the exact quotient.                                      *)

compute_divisible_length_no_minus_one(curr_length, hop_length, num_downsamples) ==
    CeilDiv((curr_length \div hop_length) + 1, Pow2(num_downsamples))
        * Pow2(num_downsamples) * hop_length

compute_divisible_length_floor(curr_length, hop_length, num_downsamples) ==
    ((((curr_length \div hop_length) + 1) \div Pow2(num_downsamples))
        * Pow2(num_downsamples) - 1) * hop_length

compute_divisible_length(curr_length, hop_length, num_downsamples) ==
    LET num_time_frames == (curr_length \div hop_length) + 1
        divisible_time_frames ==
            CeilDiv(num_time_frames, Pow2(num_downsamples)) * Pow2(num_downsamples)
        divisible_length == (divisible_time_frames - 1) * hop_length
    IN  divisible_length

----------------------------------------------------------------------------
(* torch.nn.functional.pad(x, (left, right)) on the last axis, constant    *)
(* mode: a positive amount adds zeros at that edge, a negative amount      *)
(* removes samples from that edge.                                         *)

PadRow(s, left, right) ==
    Zeros(Max(left, 0))
        \o SubSeq(s, 1 + Max(-left, 0), Len(s) - Max(-right, 0))
        \o Zeros(Max(right, 0))

F_pad_clamped(x, left, right) ==
    [b \in 1..Len(x) |->
        [c \in 1..Len(x[b]) |-> PadRow(x[b][c], Max(left, 0), Max(right, 0))]]

F_pad(x, left, right) ==
    [b \in 1..Len(x) |-> [c \in 1..Len(x[b]) |-> PadRow(x[b][c], left, right)]]

----------------------------------------------------------------------------
(* pad_to_divisible_length (utils.py 30-42).                               *)

pad_to_divisible_length(x, hop_length, num_downsamples, pad_end) ==
    LET divisible_length ==
            compute_divisible_length(TimeLen(x), hop_length, num_downsamples)
    IN  IF pad_end
        THEN F_pad(x, 0, divisible_length - TimeLen(x))
        ELSE F_pad(x, divisible_length - TimeLen(x), 0)

----------------------------------------------------------------------------
(* Calls of compute_divisible_length.                                      *)

Lengths == 0..MaxLength \cup {1000}
Hops == 1..MaxHop \cup {256}
Downs == 0..MaxDown

InitLen ==
    /\ pc = "compute_divisible_length"
    /\ args \in [curr_length : Lengths, hop_length : Hops, num_downsamples : Downs]
    /\ audio = <<>>
    /\ target_length = 0
    /\ returned = <<>>

CallComputeDivisibleLength ==
    /\ pc = "compute_divisible_length"
    /\ returned' = Append(returned,
            Ok(compute_divisible_length(args.curr_length, args.hop_length,
                                        args.num_downsamples)))
    /\ pc' = "done"
    /\ UNCHANGED <<args, audio, target_length>>

NextLen == CallComputeDivisibleLength

SpecLen == InitLen /\ [][NextLen]_vars

\* C1: for every length >= 0, hop_length > 0 and num_downsamples >= 0 the value
\* returned by compute_divisible_length is at least the length.
C1_ResultAtLeastLength ==
    pc = "done" => returned[1].value >= args.curr_length

\* C2: the result is a multiple of hop_length, and result/hop_length + 1 is the
\* smallest multiple of 2^num_downsamples that is at least
\* floor(length/hop_length) + 1; compute_divisible_length(1000, 256, 2) = 768.
C2_SmallestDivisibleFrames ==
    pc = "done" =>
        LET result == returned[1].value
            frames == (result \div args.hop_length) + 1
            needed == (args.curr_length \div args.hop_length) + 1
            factor == Pow2(args.num_downsamples)
        IN  /\ result % args.hop_length = 0
            /\ frames % factor = 0
            /\ frames >= needed
            /\ \A m \in needed..(frames - 1) : m % factor # 0
            /\ (args = [curr_length |-> 1000, hop_length |-> 256,
                        num_downsamples |-> 2]) => result = 768

C2_Witness ==
    /\ pc = "done"
    /\ args = [curr_length |-> 1000, hop_length |-> 256, num_downsamples |-> 2]
    /\ returned[1].value = 768

----------------------------------------------------------------------------
(* Calls of pad_to_divisible_length: the Length Aligner applied to a       *)
(* buffer, and then again to its own output with the same parameters.      *)

AlignBuffers ==
    {RampTensor(1, C, L) : C \in 1..MaxChannels, L \in 0..MaxAlignLen}
        \cup {ZeroTensor(1, C, L) : C \in 1..MaxChannels, L \in 0..MaxAlignLen}

InitAlign ==
    /\ pc = "pad_to_divisible_length"
    /\ args \in [x : AlignBuffers, hop_length : 1..MaxHop,
                 num_downsamples : Downs, pad_end : BOOLEAN]
    /\ audio = <<>>
    /\ target_length = 0
    /\ returned = <<>>

CallPadToDivisibleLength ==
    /\ pc = "pad_to_divisible_length"
    /\ returned' = Append(returned,
            Ok(pad_to_divisible_length(args.x, args.hop_length,
                                       args.num_downsamples, args.pad_end)))
    /\ pc' = "pad_to_divisible_length_again"
    /\ UNCHANGED <<args, audio, target_length>>

CallPadToDivisibleLengthAgain ==
    /\ pc = "pad_to_divisible_length_again"
    /\ returned' = Append(returned,
            Ok(pad_to_divisible_length(returned[1].value, args.hop_length,
                                       args.num_downsamples, args.pad_end)))
    /\ pc' = "done"
    /\ UNCHANGED <<args, audio, target_length>>

NextAlign == CallPadToDivisibleLength \/ CallPadToDivisibleLengthAgain

SpecAlign == InitAlign /\ [][NextAlign]_vars

\* C4: applying pad_to_divisible_length a second time, with the same
\* parameters, to the output of the first application computes a pad amount
\* of 0 and returns a buffer of the same length and contents.
C4_AlignIdempotent ==
    pc = "done" =>
        LET first == returned[1].value
            second == returned[2].value
        IN  /\ compute_divisible_length(TimeLen(first), args.hop_length,
                                        args.num_downsamples) - TimeLen(first) = 0
            /\ TimeLen(second) = TimeLen(first)
            /\ second = first

C4_Witness ==
    /\ pc = "done"
    /\ TimeLen(returned[1].value) > TimeLen(args.x)
    /\ returned[2].value = returned[1].value

\* C7: when the divisible length is smaller than the buffer's time length,
\* pad_to_divisible_length fails with an InvalidLengthError or returns the
\* buffer unchanged; it never returns a shorter buffer.
C7_NegativePadRejectedOrNoop ==
    (/\ Len(returned) >= 1
     /\ compute_divisible_length(TimeLen(args.x), args.hop_length,
                                 args.num_downsamples) < TimeLen(args.x))
        => \/ returned[1].raised = "InvalidLengthError"
           \/ /\ returned[1].raised = ""
              /\ returned[1].value = args.x

----------------------------------------------------------------------------
(* numpy arrays handed over by gradio.                                     *)

IntegralDtypes == {"int8", "int16"}
\* np.iinfo(dtype).max and .min
iinfo_max(dtype) == IF dtype = "int8" THEN 127 ELSE 32767
iinfo_min(dtype) == -iinfo_max(dtype) - 1

\* A 1-D array of L samples, a 2-D array of L rows of C samples.
Array1(dtype, data) == [dtype |-> dtype, shape |-> <<Len(data)>>, data |-> data]
Array2(dtype, C, data) ==
    [dtype |-> dtype, shape |-> <<Len(data), C>>, data |-> data]
ndim(a) == Len(a.shape)

\* The samples of an array, of a tensor.
ArraySamples(a) ==
    IF ndim(a) = 1
    THEN {a.data[t] : t \in 1..Len(a.data)}
    ELSE UNION {{a.data[t][c] : c \in 1..Len(a.data[t])} : t \in 1..Len(a.data)}

----------------------------------------------------------------------------
(* gradio_audio_preprocessing (utils.py 45-83), by its commented blocks.   *)

\* 56-58: audio / np.iinfo(audio.dtype).max, a float64 array
RescaleIntegral(a) ==
    IF a.dtype \in IntegralDtypes
    THEN LET max == <<iinfo_max(a.dtype), 1>>
         IN  [a EXCEPT
                !.dtype = "float64",
                !.data =
                    IF ndim(a) = 1
                    THEN [t \in 1..a.shape[1] |-> RDiv(a.data[t], max)]
                    ELSE [t \in 1..a.shape[1] |->
                            [c \in 1..a.shape[2] |-> RDiv(a.data[t][c], max)]]]
    ELSE a

\* 61-65: torch.from_numpy and rearrange "l -> () () l" / "l c -> () c l"
ToBatchedChannelFirst(a) ==
    IF ndim(a) = 1
    THEN <<<<a.data>>>>
    ELSE <<[c \in 1..a.shape[2] |-> [t \in 1..a.shape[1] |-> a.data[t][c]]]>>

\* 66: torchaudio.functional.resample.  Equal rates return the waveform
\* itself; otherwise the time axis gets ceil(new_freq * length / orig_freq)
\* samples, the outputs of the resampling kernel, which are kept symbolic.
Resample(x, orig_freq, new_freq) ==
    IF orig_freq = new_freq
    THEN x
    ELSE [b \in 1..Len(x) |->
            [c \in 1..Len(x[b]) |->
                [i \in 1..CeilDiv(new_freq * Len(x[b][c]), orig_freq) |->
                    <<"resampled", i>>]]]

\* 69: int((target_length * target_sample_rate) / src_sample_rate)
RescaleTargetLength(length, target_sample_rate, src_sample_rate) ==
    (length * target_sample_rate) \div src_sample_rate

\* 72-75 and 90-93: pad the time axis to `length` at the edge pad_end selects
PadToLength(x, length, pad_end) ==
    IF pad_end
    THEN F_pad(x, 0, length - TimeLen(x))
    ELSE F_pad(x, length - TimeLen(x), 0)

PreRescale ==
    /\ pc = "pre_rescale"
    /\ audio' = RescaleIntegral(audio)
    /\ pc' = "pre_load"
    /\ UNCHANGED <<args, target_length, returned>>

PreLoadResample ==
    /\ pc = "pre_load"
    /\ audio' = Resample(ToBatchedChannelFirst(audio),
                         args.src_sample_rate, args.target_sample_rate)
    /\ pc' = "pre_pad"
    /\ UNCHANGED <<args, target_length, returned>>

PrePad ==
    /\ pc = "pre_pad"
    /\ target_length' = RescaleTargetLength(target_length,
                            args.target_sample_rate, args.src_sample_rate)
    /\ audio' = PadToLength(audio, target_length', args.pad_end)
    /\ pc' = "pre_align"
    /\ UNCHANGED <<args, returned>>

PreAlign ==
    /\ pc = "pre_align"
    /\ audio' = pad_to_divisible_length(audio, args.hop_length,
                                        args.num_downsamples, args.pad_end)
    /\ pc' = "pre_return"
    /\ UNCHANGED <<args, target_length, returned>>

\* 80-83: the cast keeps the samples (the dtype asked for is taken to hold
\* them exactly); the tensor is returned and handed on to the post-processing.
PreReturn ==
    /\ pc = "pre_return"
    /\ returned' = Append(returned, Ok(audio))
    /\ pc' = "post_pad"
    /\ UNCHANGED <<args, audio, target_length>>

----------------------------------------------------------------------------
(* gradio_audio_postprocessing (utils.py 86-98).                           *)

\* 96: rearrange "b c l -> (l b) c": in the composed axis l is the outer
\* index and b the inner one, so row l * B + b holds x[b, :, l] (0-based).
Rearrange(x) ==
    [r \in 1..(TimeLen(x) * BatchSize(x)) |->
        [c \in 1..Channels(x) |->
            x[((r - 1) % BatchSize(x)) + 1][c][((r - 1) \div BatchSize(x)) + 1]]]

PostPad ==
    /\ pc = "post_pad"
    /\ audio' = PadToLength(audio, args.target_length, args.pad_end)
    /\ pc' = "post_return"
    /\ UNCHANGED <<args, target_length, returned>>

PostReturn ==
    /\ pc = "post_return"
    /\ returned' = Append(returned, Ok(Rearrange(audio)))
    /\ pc' = "done"
    /\ UNCHANGED <<args, audio, target_length>>

----------------------------------------------------------------------------
(* The pipeline: gradio_audio_preprocessing, then                          *)
(* gradio_audio_postprocessing on its output with the same target_length   *)
(* and pad_end.                                                            *)

FloatRamp(L) == Array1("float32", [t \in 1..L |-> Rat(t, L + 1)])
Silence(L) == Array1("float32", Zeros(L))
IntRamp(dtype, L) == Array1(dtype, [t \in 1..L |-> <<iinfo_min(dtype) + t - 1, 1>>])
StereoRamp(L) ==
    Array2("float32", 2, [t \in 1..L |-> [c \in 1..2 |-> Rat(t, L + c)]])

RawKinds == {"float ramp", "silence", "int16 ramp", "stereo ramp"}
RawArray(kind, L) ==
    CASE kind = "float ramp" -> FloatRamp(L)
      [] kind = "silence" -> Silence(L)
      [] kind = "int16 ramp" -> IntRamp("int16", L)
      [] kind = "stereo ramp" -> StereoRamp(L)

InitPipeline ==
    /\ pc = "pre_rescale"
    /\ \E kind \in RawKinds, L \in 0..MaxAudioLen :
        \E rest \in [src_sample_rate : 1..MaxRate,
                     target_sample_rate : 1..MaxRate,
                     target_length : 0..MaxTarget,
                     hop_length : 1..MaxPipeHop,
                     num_downsamples : 0..MaxPipeDown,
                     pad_end : BOOLEAN] :
            args = [audio |-> RawArray(kind, L),
                    src_sample_rate |-> rest.src_sample_rate,
                    target_sample_rate |-> rest.target_sample_rate,
                    target_length |-> rest.target_length,
                    hop_length |-> rest.hop_length,
                    num_downsamples |-> rest.num_downsamples,
                    pad_end |-> rest.pad_end]
    /\ audio = args.audio
    /\ target_length = args.target_length
    /\ returned = <<>>

NextPipeline ==
    \/ PreRescale
    \/ PreLoadResample
    \/ PrePad
    \/ PreAlign
    \/ PreReturn
    \/ PostPad
    \/ PostReturn

SpecPipeline == InitPipeline /\ [][NextPipeline]_vars

\* C3: round trip.  For a mono buffer x, equal rates, target_length = len(x)
\* and num_downsamples = 0, the post-processing of the pre-processed buffer
\* with target_length = len(x) returns x sample for sample.
C3_RoundTrip ==
    (/\ pc = "done"
     /\ ndim(args.audio) = 1
     /\ args.src_sample_rate = args.target_sample_rate
     /\ args.target_length = args.audio.shape[1]
     /\ args.num_downsamples = 0)
        => LET x == args.audio.data
               out == returned[2].value
           IN  /\ Len(out) = Len(x)
               /\ \A t \in 1..Len(x) : out[t] = <<x[t]>>

\* C10: the time length of the tensor gradio_audio_preprocessing returns is
\* compute_divisible_length(floor(target_length * target_rate / src_rate),
\* hop_length, num_downsamples), whatever the length of the resampled audio,
\* and length/hop_length + 1 is divisible by 2^num_downsamples.
C10_PreprocessedLength ==
    Len(returned) >= 1 =>
        LET length == TimeLen(returned[1].value)
            rescaled == (args.target_length * args.target_sample_rate)
                            \div args.src_sample_rate
        IN  /\ length = compute_divisible_length(rescaled, args.hop_length,
                                                 args.num_downsamples)
            /\ length % args.hop_length = 0
            /\ ((length \div args.hop_length) + 1) % Pow2(args.num_downsamples) = 0

\* The resampled audio is longer than the rescaled target length, and the
\* aligned length differs from both.
C10_Witness ==
    /\ Len(returned) >= 1
    /\ args.src_sample_rate # args.target_sample_rate
    /\ args.num_downsamples > 0
    /\ CeilDiv(args.target_sample_rate * args.audio.shape[1], args.src_sample_rate)
            > target_length
    /\ TimeLen(returned[1].value) # target_length

----------------------------------------------------------------------------
(* The pipeline on one integer sample, over the whole range of its type.   *)

InitRescale ==
    /\ pc = "pre_rescale"
    /\ \E dtype \in IntegralDtypes :
        \E v \in iinfo_min(dtype)..iinfo_max(dtype) :
            \E pad_end \in BOOLEAN :
                args = [audio |-> Array1(dtype, <<<<v, 1>>>>),
                        src_sample_rate |-> 1,
                        target_sample_rate |-> 1,
                        target_length |-> 1,
                        hop_length |-> 1,
                        num_downsamples |-> 0,
                        pad_end |-> pad_end]
    /\ audio = args.audio
    /\ target_length = args.target_length
    /\ returned = <<>>

SpecRescale == InitRescale /\ [][NextPipeline]_vars

\* C8: for every signed integer type and every value of that type, the
\* integer rescaling of gradio_audio_preprocessing (the value divided by the
\* type's maximum) yields a value in [-1, 1].
C8_RescaledInUnit ==
    (pc = "pre_load" /\ args.audio.dtype \in IntegralDtypes)
        => \A q \in ArraySamples(audio) : InUnit(q)

----------------------------------------------------------------------------
(* Calls of gradio_audio_postprocessing on a model output of shape         *)
(* (B, C, L).                                                              *)

InitPost ==
    /\ pc = "post_pad"
    /\ args \in [target_length : 0..MaxPostTarget, pad_end : BOOLEAN]
    /\ audio \in {RampTensor(B, C, L) :
                    B \in 1..MaxBatch, C \in 1..MaxChannels, L \in 0..MaxPostLen}
    /\ target_length = args.target_length
    /\ returned = <<>>

NextPost == PostPad \/ PostReturn

SpecPost == InitPost /\ [][NextPost]_vars

\* C6: for a model output of shape (B, C, L) brought to time length
\* T = target_length, the array returned has B*T rows of C samples, in
\* batch-major order: row b*T + t, column c holds the sample at [b, c, t].
C6_BatchMajorRows ==
    pc = "done" =>
        LET out == returned[Len(returned)].value
            B == BatchSize(audio)
            C == Channels(audio)
            T == args.target_length
        IN  /\ TimeLen(audio) = T
            /\ Len(out) = B * T
            /\ \A b \in 0..(B - 1), t \in 0..(T - 1), c \in 0..(C - 1) :
                    out[b * T + t + 1][c + 1] = audio[b + 1][c + 1][t + 1]

----------------------------------------------------------------------------
(* generate_gradio_audio_mask (utils.py 101-119).  A string is the         *)
(* sequence of its characters.                                             *)

DigitChars == <<"0", "1", "2", "3", "4", "5", "6", "7", "8", "9">>
IsDigit(ch) == \E d \in 1..10 : DigitChars[d] = ch
DigitValue(ch) == (CHOOSE d \in 1..10 : DigitChars[d] = ch) - 1

RECURSIVE Split(_, _)
\* str.split(sep): the pieces between the separators, at least one piece
Split(str, sep) ==
    IF \A i \in 1..Len(str) : str[i] # sep
    THEN <<str>>
    ELSE LET i == CHOOSE j \in 1..Len(str) :
                    str[j] = sep /\ \A k \in 1..(j - 1) : str[k] # sep
         IN  <<SubSeq(str, 1, i - 1)>> \o Split(SubSeq(str, i + 1, Len(str)), sep)

RECURSIVE DecimalValue(_)
DecimalValue(str) ==
    IF str = <<>> THEN 0
    ELSE 10 * DecimalValue(SubSeq(str, 1, Len(str) - 1)) + DigitValue(str[Len(str)])

\* int(str) over the characters 0-9, "-" and ",": a non-empty run of digits,
\* anything else raises ValueError
ParseInt(str) ==
    IF str # <<>> /\ \A i \in 1..Len(str) : IsDigit(str[i])
    THEN Ok(DecimalValue(str))
    ELSE Raise("ValueError")

\* 107: start, end = map(int, mask.split("-"))
ParseInterval(piece) ==
    LET parts == Split(piece, "-")
    IN  IF Len(parts) # 2
        THEN Raise("ValueError")
        ELSE LET start == ParseInt(parts[1])
                 end == ParseInt(parts[2])
             IN  IF start.raised # "" \/ end.raised # ""
                 THEN Raise("ValueError")
                 ELSE Ok(<<start.value, end.value>>)

\* 105-108: the list of (start, end) of the spec, or the first ValueError
ParseIntervals(spec) ==
    LET pieces == Split(spec, ",")
        parsed == [k \in 1..Len(pieces) |-> ParseInterval(pieces[k])]
    IN  IF \E k \in 1..Len(pieces) : parsed[k].raised # ""
        THEN Raise("ValueError")
        ELSE Ok([k \in 1..Len(pieces) |-> parsed[k].value])

\* 111: np.ones_like(audio)
OnesLike(a) ==
    [a EXCEPT !.data =
        IF ndim(a) = 1
        THEN [t \in 1..a.shape[1] |-> One]
        ELSE [t \in 1..a.shape[1] |-> [c \in 1..a.shape[2] |-> One]]]

\* A bound k of a slice over an axis of n entries: negative bounds count
\* from the end, and every bound is clipped to 0..n.
SliceBound(k, n) == IF k < 0 THEN Max(k + n, 0) ELSE Min(k, n)

\* 117: mask[start_sample:end_sample, ...] = 0, indices 0-based
SliceAssignZeroInclusive(mask, start_sample, end_sample) ==
    LET n == mask.shape[1]
        lo == SliceBound(start_sample, n)
        hi == SliceBound(end_sample, n)
    IN  [mask EXCEPT !.data =
            [t \in 1..n |->
                IF lo <= t - 1 /\ t - 1 <= hi
                THEN (IF ndim(mask) = 1 THEN Zero
                      ELSE [c \in 1..mask.shape[2] |-> Zero])
                ELSE mask.data[t]]]

SliceAssignZero(mask, start_sample, end_sample) ==
    LET n == mask.shape[1]
        lo == SliceBound(start_sample, n)
        hi == SliceBound(end_sample, n)
    IN  [mask EXCEPT !.data =
            [t \in 1..n |->
                IF lo <= t - 1 /\ t - 1 < hi
                THEN (IF ndim(mask) = 1 THEN Zero
                      ELSE [c \in 1..mask.shape[2] |-> Zero])
                ELSE mask.data[t]]]

RECURSIVE ZeroIntervals(_, _, _, _)
\* 114-117: the loop over mask_intervals, from the k-th interval on
ZeroIntervals(mask, mask_intervals, sample_rate, k) ==
    IF k > Len(mask_intervals)
    THEN mask
    ELSE LET start_sample == mask_intervals[k][1] * sample_rate
             end_sample == mask_intervals[k][2] * sample_rate
         IN  ZeroIntervals(SliceAssignZero(mask, start_sample, end_sample),
                           mask_intervals, sample_rate, k + 1)

generate_gradio_audio_mask(a, sample_rate, spec) ==
    LET mask_intervals == ParseIntervals(spec)
    IN  IF mask_intervals.raised # ""
        THEN mask_intervals
        ELSE Ok(ZeroIntervals(OnesLike(a), mask_intervals.value, sample_rate, 1))

----------------------------------------------------------------------------
(* Calls of generate_gradio_audio_mask.  The spec string is written from a *)
(* list of intervals in whole seconds, "<start>-<end>" joined by ",";      *)
(* args.intervals keeps that list (the function sees args.spec only).      *)

RECURSIVE Decimal(_)
\* the decimal digits of n >= 0
Decimal(n) ==
    IF n < 10 THEN <<DigitChars[n + 1]>>
    ELSE Decimal(n \div 10) \o <<DigitChars[(n % 10) + 1]>>

RECURSIVE WriteSpec(_)
WriteSpec(intervals) ==
    IF intervals = <<>> THEN <<>>
    ELSE LET first == Decimal(intervals[1][1]) \o <<"-">> \o Decimal(intervals[1][2])
         IN  IF Len(intervals) = 1
             THEN first
             ELSE first \o <<",">> \o WriteSpec(Tail(intervals))

\* "", "1", "1-", "-1", "1-2-3", "1-2,", "1,2"
MalformedSpecs ==
    {<<>>, <<"1">>, <<"1", "-">>, <<"-", "1">>, <<"1", "-", "2", "-", "3">>,
     <<"1", "-", "2", ",">>, <<"1", ",", "2">>}

MaskAudio(N, C) ==
    IF C = 0 THEN Array1("float32", Zeros(N))
    ELSE Array2("float32", C, [t \in 1..N |-> [c \in 1..C |-> Zero]])

\* the seconds of the 50-sample buffer at rate 10: inside it, and beyond
ExampleSecs == {0, 1, 3, 4, 10}

InitMask ==
    /\ pc = "generate_gradio_audio_mask"
    /\ \/ \E n \in 1..MaxIntervals :
            \E intervals \in [1..n -> (0..MaxSec) \X (0..MaxSec)] :
                \E N \in 0..MaxMaskLen, C \in {0, 2}, rate \in 1..MaxMaskRate :
                    args = [audio |-> MaskAudio(N, C), sample_rate |-> rate,
                            spec |-> WriteSpec(intervals), intervals |-> intervals]
       \/ \E n \in 1..MaxIntervals :
            \E intervals \in [1..n -> ExampleSecs \X ExampleSecs] :
                args = [audio |-> MaskAudio(50, 0), sample_rate |-> 10,
                        spec |-> WriteSpec(intervals), intervals |-> intervals]
       \/ \E spec \in MalformedSpecs :
            args = [audio |-> MaskAudio(MaxMaskLen, 0), sample_rate |-> 1,
                    spec |-> spec, intervals |-> <<>>]
    /\ audio = <<>>
    /\ target_length = 0
    /\ returned = <<>>

CallGenerateGradioAudioMask ==
    /\ pc = "generate_gradio_audio_mask"
    /\ returned' = Append(returned,
            generate_gradio_audio_mask(args.audio, args.sample_rate, args.spec))
    /\ pc' = "done"
    /\ UNCHANGED <<args, audio, target_length>>

NextMask == CallGenerateGradioAudioMask

SpecMask == InitMask /\ [][NextMask]_vars

----------------------------------------------------------------------------
(* max_abs_scaling (utils.py 122-126).                                     *)

TensorSamples(x) ==
    UNION {UNION {{x[b][c][t] : t \in 1..Len(x[b][c])} : c \in 1..Len(x[b])} :
                b \in 1..Len(x)}

\* x / q and x * q, elementwise
DivTensor(x, q) ==
    [b \in 1..Len(x) |->
        [c \in 1..Len(x[b]) |-> [t \in 1..Len(x[b][c]) |-> RDiv(x[b][c][t], q)]]]
MulTensor(x, q) ==
    [b \in 1..Len(x) |->
        [c \in 1..Len(x[b]) |-> [t \in 1..Len(x[b][c]) |-> RMul(x[b][c][t], q)]]]

\* x.abs().max() of a non-empty tensor of finite samples
MaxAbs(x) ==
    LET S == {RAbs(q) : q \in TensorSamples(x)}
    IN  CHOOSE m \in S : \A q \in S : RLeq(q, m)

\* 123-124.  The maximum of an empty tensor raises; a zero maximum makes
\* every quotient 0/0.
max_abs_scaling(x, max_abs_value) ==
    IF TensorSamples(x) = {}
    THEN Raise("RuntimeError")
    ELSE Ok(MulTensor(DivTensor(x, MaxAbs(x)), max_abs_value))

ScaleSamples == {Rat(-1, 1), Zero, Rat(1, 2)}
\* the default 0.05, and 0.5
ScaleValues == {Rat(1, 20), Rat(1, 2)}

InitScale ==
    /\ pc = "max_abs_scaling"
    /\ \E L \in 0..MaxScaleLen :
        \E samples \in [1..L -> ScaleSamples], value \in ScaleValues :
            args = [x |-> <<<<samples>>>>, max_abs_value |-> value]
    /\ audio = <<>>
    /\ target_length = 0
    /\ returned = <<>>

CallMaxAbsScaling ==
    /\ pc = "max_abs_scaling"
    /\ returned' = Append(returned, max_abs_scaling(args.x, args.max_abs_value))
    /\ pc' = "done"
    /\ UNCHANGED <<args, audio, target_length>>

NextScale == CallMaxAbsScaling

SpecScale == InitScale /\ [][NextScale]_vars

\* C9: max_abs_scaling of an all-zero buffer fails with a DivideByZeroError
\* or returns the zero buffer unchanged; it never returns a buffer holding an
\* undefined (NaN/Inf) sample.
C9_ZeroBufferRejectedOrUnchanged ==
    (pc = "done" /\ TensorSamples(args.x) = {Zero}) =>
        \/ returned[1].raised = "DivideByZeroError"
        \/ /\ returned[1].raised = ""
           /\ returned[1].value = args.x
           /\ \A q \in TensorSamples(returned[1].value) : IsFinite(q)

====
